---------------------------- MODULE Spec2Model ----------------------------
(***************************************************************************)
(* Model of the dlfcn crate: the RTLD flags value (src/src/rtld.rs) and    *)
(* the Library handle wrapper around dlopen/dlsym/dlclose                  *)
(* (src/src/dynlib.rs).                                                    *)
(*                                                                         *)
(* Strings are finite sequences of bytes.  A Rust String is valid UTF-8    *)
(* and may contain the NUL byte; a CString holds any bytes but NUL.        *)
(* Pointers are naturals, NULL being the null pointer.                     *)
(***************************************************************************)
EXTENDS Integers, Sequences, FiniteSets, TLC

-----------------------------------------------------------------------------
(* Bounds of the model *)

\* native handles the platform may hand out are 1..MaxHandle
MaxHandle == 1
\* symbol addresses the platform may hand out are 1..MaxAddr
MaxAddr == 1
\* longest modifier list of an RtldValue
MaxOrs == 2
\* number of Box values for one address the caller holds at a time
MaxBoxes == 2
\* number of dlsym calls counted per Library and symbol name
MaxDlsym == 2
\* number of keys of a table given to a Library built from its raw fields
MaxRawKeys == 1

-----------------------------------------------------------------------------
(* Bytes, strings and pointers *)

\* the null pointer, as tested by is_null()
NULL == 0
\* the terminator byte CString::new rejects
NUL == 0

SeqsUpTo(S, n) == UNION {[1..k -> S] : k \in 0..n}

\* the values of type String the caller passes as paths and symbol names
\* (valid UTF-8, NUL allowed): the empty string, "a", and "\0"
Strings == {<<>>, <<97>>, <<NUL>>}

\* the values of type CString the caller passes to Library::new (no NUL,
\* not necessarily UTF-8): the empty string, "a", and the byte 0xFF
CStrings == {<<>>, <<97>>, <<255>>}

Handles == 1..MaxHandle
Addrs == 1..MaxAddr

\* CString::new as it would be if it cut the bytes at the first NUL, the
\* way a C string is read, instead of rejecting them
CStringNew_truncating(s) ==
  [ok |-> TRUE,
   bytes |-> IF \E i \in 1..Len(s) : s[i] = NUL
             THEN SubSeq(s, 1, (CHOOSE i \in 1..Len(s) :
                                  s[i] = NUL /\ \A j \in 1..(i - 1) : s[j] # NUL) - 1)
             ELSE s]

\* CString::new(bytes): Err if an interior NUL byte is found
CStringNew(s) ==
  IF \E i \in 1..Len(s) : s[i] = NUL
  THEN [ok |-> FALSE, bytes |-> <<>>]
  ELSE [ok |-> TRUE, bytes |-> s]

\* CString::into_string: Err unless the bytes are valid UTF-8 (of the
\* bytes of the model, those below 128 are)
IntoString(c) ==
  IF \A i \in 1..Len(c) : c[i] < 128
  THEN [ok |-> TRUE, str |-> c]
  ELSE [ok |-> FALSE, str |-> <<>>]

-----------------------------------------------------------------------------
(* rtld.rs: the flags value *)

\* libc constants of <dlfcn.h> (Linux)
RTLD_LAZY == 1
RTLD_NOW == 2
RTLD_NOLOAD == 4
RTLD_DEEPBIND == 8
RTLD_GLOBAL == 256
RTLD_LOCAL == 0
RTLD_NODELETE == 4096
\* width of c_int
IntBits == 32

RtldMains == {"Lazy", "Now"}
RtldOrs == {"Global", "Local", "NoDelete", "NoLoad", "DeepBind"}

\* struct RtldValue { main, ors }
RtldValues == [main : RtldMains, ors : SeqsUpTo(RtldOrs, MaxOrs)]

\* RtldValue::new
RtldValue_new(main) == [main |-> main, ors |-> <<>>]

\* RtldValue::with
RtldValue_with(self, or) == [self EXCEPT !.ors = Append(@, or)]

\* RtldMain::to_libc as it would be if Now stood for both binding bits
RtldMain_to_libc_both(m) ==
  CASE m = "Lazy" -> RTLD_LAZY
    [] m = "Now" -> RTLD_LAZY + RTLD_NOW

\* RtldMain::to_libc
RtldMain_to_libc(m) ==
  CASE m = "Lazy" -> RTLD_LAZY
    [] m = "Now" -> RTLD_NOW

\* RtldOr::to_libc
RtldOr_to_libc(o) ==
  CASE o = "Global" -> RTLD_GLOBAL
    [] o = "Local" -> RTLD_LOCAL
    [] o = "NoDelete" -> RTLD_NODELETE
    [] o = "NoLoad" -> RTLD_NOLOAD
    [] o = "DeepBind" -> RTLD_DEEPBIND

\* + in the place of |
BitOr_plus(a, b) == a + b

\* the | operator of c_int, on non-negative values
RECURSIVE BitOr(_, _)
BitOr(a, b) ==
  IF a = 0 THEN b
  ELSE IF b = 0 THEN a
  ELSE (IF a % 2 = 1 \/ b % 2 = 1 THEN 1 ELSE 0) + 2 * BitOr(a \div 2, b \div 2)

\* the loop of RtldValue::to_libc as it would be with = in the place of |=
OrLoop_assign(ret, ors) ==
  IF ors = <<>> THEN ret ELSE RtldOr_to_libc(ors[Len(ors)])

\* the loop of RtldValue::to_libc: ret |= or.to_libc() for each or, in order
RECURSIVE OrLoop(_, _)
OrLoop(ret, ors) ==
  IF ors = <<>> THEN ret
  ELSE OrLoop(BitOr(ret, RtldOr_to_libc(Head(ors))), Tail(ors))

\* RtldValue::to_libc
RtldValue_to_libc(self) == OrLoop(RtldMain_to_libc(self.main), self.ors)

-----------------------------------------------------------------------------
(* dynlib.rs: the Library handle *)

Cnt(f, k) == IF k \in DOMAIN f THEN f[k] ELSE 0

\* is_null as it would be if failure were taken to be -1, as for the calls
\* that return MAP_FAILED
is_null_minus1(p) == p = -1

\* <*mut c_void>::is_null
is_null(p) == p = NULL

\* struct Library { handle, name, table }, with the bookkeeping of the
\* model: how the value was built (via) and from which path argument
\* (path), whether it is still in scope (live), and the platform calls
\* made through it (closes, dlsyms)
MkLibrary(handle, name, table, via, path) ==
  [handle |-> handle, name |-> name, table |-> table, via |-> via,
   path |-> path, live |-> TRUE, closes |-> 0, dlsyms |-> <<>>]

NoLibrary ==
  [handle |-> NULL, name |-> <<>>, table |-> <<>>, via |-> "none",
   path |-> <<>>, live |-> FALSE, closes |-> 0, dlsyms |-> <<>>]

\* what the platform may answer to dlopen(path, mode)
dlopen(path, mode) == {NULL} \cup Handles

\* what the platform may answer to dlsym for a symbol it has not been
\* asked about yet
dlsym_answers == {NULL} \cup Addrs

\* the name argument Library::sym passes to dlsym: a null pointer for the
\* empty name, the C string otherwise
dlsym_arg(name, name_c) ==
  IF name = <<>>
  THEN [null |-> TRUE, bytes |-> <<>>]
  ELSE [null |-> FALSE, bytes |-> name_c]

\* Some(Box::from_raw(p)) as the caller sees it.  A Box is never null and
\* Option<Box<T>> uses the null pointer for None, so for p = NULL the
\* behaviour is undefined: ub is the outcome the build produces.
SomeBoxFromRaw(p, ub) == IF is_null(p) THEN ub ELSE "Some"

UbOutcomes == {"None", "Some"}

\* Library::sym as it would be if it did not insert a null answer of the
\* platform into the table
Library_sym_positive(self, name, sym_c, ub) ==
  IF name \in DOMAIN self.table
  THEN [self |-> self, hit |-> TRUE, called |-> FALSE,
        addr |-> self.table[name],
        ret |-> SomeBoxFromRaw(self.table[name], ub)]
  ELSE IF is_null(self.handle) \/ ~CStringNew(name).ok
  THEN [self |-> self, hit |-> FALSE, called |-> FALSE, addr |-> NULL,
        ret |-> "None"]
  ELSE [self |-> [self EXCEPT
                    !.table = IF is_null(sym_c) THEN @ ELSE (name :> sym_c) @@ @,
                    !.dlsyms = (name :> (Cnt(@, name) + 1)) @@ @],
        hit |-> FALSE, called |-> TRUE, addr |-> sym_c,
        ret |-> SomeBoxFromRaw(sym_c, ub)]

\* Library::sym as it would be if it stored the symbol name in the name
\* field of the Library along with the table entry
Library_sym_renaming(self, name, sym_c, ub) ==
  IF name \in DOMAIN self.table
  THEN [self |-> self, hit |-> TRUE, called |-> FALSE,
        addr |-> self.table[name],
        ret |-> SomeBoxFromRaw(self.table[name], ub)]
  ELSE IF is_null(self.handle) \/ ~CStringNew(name).ok
  THEN [self |-> self, hit |-> FALSE, called |-> FALSE, addr |-> NULL,
        ret |-> "None"]
  ELSE [self |-> [self EXCEPT
                    !.name = name,
                    !.table = (name :> sym_c) @@ @,
                    !.dlsyms = (name :> (Cnt(@, name) + 1)) @@ @],
        hit |-> FALSE, called |-> TRUE, addr |-> sym_c,
        ret |-> SomeBoxFromRaw(sym_c, ub)]

\* Library::sym as it would be if the table kept the latest answer only
Library_sym_evicting(self, name, sym_c, ub) ==
  IF name \in DOMAIN self.table
  THEN [self |-> self, hit |-> TRUE, called |-> FALSE,
        addr |-> self.table[name],
        ret |-> SomeBoxFromRaw(self.table[name], ub)]
  ELSE IF is_null(self.handle) \/ ~CStringNew(name).ok
  THEN [self |-> self, hit |-> FALSE, called |-> FALSE, addr |-> NULL,
        ret |-> "None"]
  ELSE [self |-> [self EXCEPT
                    !.table = (name :> sym_c),
                    !.dlsyms = (name :> (Cnt(@, name) + 1)) @@ @],
        hit |-> FALSE, called |-> TRUE, addr |-> sym_c,
        ret |-> SomeBoxFromRaw(sym_c, ub)]

\* Library::sym as it would be with the test of the handle before the
\* lookup in the table
Library_sym_null_first(self, name, sym_c, ub) ==
  IF is_null(self.handle)
  THEN [self |-> self, hit |-> FALSE, called |-> FALSE, addr |-> NULL,
        ret |-> "None"]
  ELSE IF name \in DOMAIN self.table
  THEN [self |-> self, hit |-> TRUE, called |-> FALSE,
        addr |-> self.table[name],
        ret |-> SomeBoxFromRaw(self.table[name], ub)]
  ELSE IF ~CStringNew(name).ok
  THEN [self |-> self, hit |-> FALSE, called |-> FALSE, addr |-> NULL,
        ret |-> "None"]
  ELSE [self |-> [self EXCEPT
                    !.table = (name :> sym_c) @@ @,
                    !.dlsyms = (name :> (Cnt(@, name) + 1)) @@ @],
        hit |-> FALSE, called |-> TRUE, addr |-> sym_c,
        ret |-> SomeBoxFromRaw(sym_c, ub)]

\* Library::sym, given the platform's answer sym_c should dlsym be called
Library_sym(self, name, sym_c, ub) ==
  IF name \in DOMAIN self.table
  THEN [self |-> self, hit |-> TRUE, called |-> FALSE,
        addr |-> self.table[name],
        ret |-> SomeBoxFromRaw(self.table[name], ub)]
  ELSE IF is_null(self.handle)
  THEN [self |-> self, hit |-> FALSE, called |-> FALSE, addr |-> NULL,
        ret |-> "None"]
  ELSE IF ~CStringNew(name).ok
  THEN [self |-> self, hit |-> FALSE, called |-> FALSE, addr |-> NULL,
        ret |-> "None"]
  ELSE [self |-> [self EXCEPT
                    !.table = (name :> sym_c) @@ @,
                    !.dlsyms = (name :> (Cnt(@, name) + 1)) @@ @],
        hit |-> FALSE, called |-> TRUE, addr |-> sym_c,
        ret |-> SomeBoxFromRaw(sym_c, ub)]

\* Library::new as it would be without the check of the handle
Library_new_unchecked(name_c, rtld, handle, via) ==
  IF ~IntoString(name_c).ok
  THEN [ret |-> "panic", lib |-> NoLibrary]
  ELSE [ret |-> "Some",
        lib |-> MkLibrary(handle, IntoString(name_c).str, <<>>, via, name_c)]

\* Library::new, given the platform's answer handle to dlopen
Library_new(name_c, rtld, handle, via) ==
  IF is_null(handle)
  THEN [ret |-> "None", lib |-> NoLibrary]
  ELSE IF ~IntoString(name_c).ok
  THEN [ret |-> "panic", lib |-> NoLibrary]
  ELSE [ret |-> "Some",
        lib |-> MkLibrary(handle, IntoString(name_c).str, <<>>, via, name_c)]

\* Drop for Library as it would be without the check of the handle
Library_drop_unchecked(self) ==
  [self EXCEPT !.live = FALSE, !.closes = @ + 1,
               !.name = <<>>, !.path = <<>>, !.table = <<>>,
               !.dlsyms = <<>>]

\* Drop for Library, followed by the drop of the fields name and table
Library_drop(self) ==
  [self EXCEPT !.live = FALSE,
               !.closes = IF ~is_null(self.handle) THEN @ + 1 ELSE @,
               !.name = <<>>, !.path = <<>>, !.table = <<>>,
               !.dlsyms = <<>>]

\* Library::name
Library_name(self) == self.name

-----------------------------------------------------------------------------
VARIABLES
  flags,     \* the RtldValue the caller is building
  mask,      \* the last conversion: the value converted and the c_int returned
  lib,       \* the Library the caller holds, or held last
  symtab,    \* the platform's answers to dlsym so far for the loaded
             \* library, per handle and name
  call,      \* the call of Library::new or Library::open that is running
             \* or was the caller's latest operation
  lastSym,   \* the call of Library::sym that was the caller's latest operation
  lastName,  \* the call of Library::name that was the caller's latest operation
  racers,    \* per thread of a caller that shares one Library between two
             \* threads, its call of Library::sym and how far it has come
  boxes,     \* per address, the Box values for it the caller holds
  freed      \* addresses deallocated through a Box

flagVars == <<flags, mask>>
libVars == <<lib, symtab, call, lastSym, lastName, racers, boxes, freed>>
vars ==
  <<flags, mask, lib, symtab, call, lastSym, lastName, racers, boxes, freed>>

NoMask == [of |-> RtldValue_new("Lazy"), value |-> -1]

\* fn: the function called; name: its path argument; dlopened: whether it
\* called dlopen, and handle the answer; ret: what it returned ("pending"
\* while the closure of Library::open runs); built: whether it built a
\* Library; closures: how often it called the closure
NoCall ==
  [fn |-> "none", name |-> <<>>, dlopened |-> FALSE, handle |-> NULL,
   ret |-> "none", built |-> FALSE, closures |-> 0]

\* name: the symbol asked for; hit: whether the table had it; called:
\* whether dlsym was called; addr: the address found; ret: what the
\* caller got
NoSym ==
  [name |-> <<>>, hit |-> FALSE, called |-> FALSE, addr |-> NULL,
   ret |-> "none"]

\* called: whether Library::name was called; ret: the String it returned
NoName == [called |-> FALSE, ret |-> <<>>]

Threads == {"t1", "t2"}

\* pc: where the call is (idle: not called yet; check: before the lookup
\* in the table; dlsym: before the call of dlsym; insert: before the
\* insert into the table; done: returned); the other fields as in NoSym;
\* overlap: whether the call began while the call of the other thread
\* was running
NoRacer ==
  [pc |-> "idle", name |-> <<>>, hit |-> FALSE, called |-> FALSE,
   addr |-> NULL, ret |-> "none", overlap |-> FALSE]

\* the RtldValue arguments the caller opens libraries with
OpenFlags ==
  {RtldValue_new("Lazy"), RtldValue_with(RtldValue_new("Now"), "Global")}

\* the tables a Library built from its raw fields starts with
RawTables ==
  UNION {[K -> {NULL} \cup Addrs] :
           K \in {S \in SUBSET Strings : Cardinality(S) <= MaxRawKeys}}

Init ==
  /\ flags = RtldValue_new("Lazy")
  /\ mask = NoMask
  /\ lib = NoLibrary
  /\ symtab = <<>>
  /\ call = NoCall
  /\ lastSym = NoSym
  /\ lastName = NoName
  /\ racers = [t \in Threads |-> NoRacer]
  /\ boxes = [a \in Addrs |-> 0]
  /\ freed = {}

-----------------------------------------------------------------------------
(* The caller builds and converts flags *)

\* the caller constructs a value
NewFlags ==
  \E m \in RtldMains :
    /\ flags' = RtldValue_new(m)
    /\ UNCHANGED <<mask, libVars>>

\* the caller adds a modifier
WithFlag ==
  \E o \in RtldOrs :
    /\ Len(flags.ors) < MaxOrs
    /\ flags' = RtldValue_with(flags, o)
    /\ UNCHANGED <<mask, libVars>>

\* the caller converts the value
ToLibc ==
  /\ mask' = [of |-> flags, value |-> RtldValue_to_libc(flags)]
  /\ UNCHANGED <<flags, libVars>>

NextFlags == NewFlags \/ WithFlag \/ ToLibc

SpecFlags == Init /\ [][NextFlags]_vars

-----------------------------------------------------------------------------
(* The caller uses libraries.  The caller is one thread and holds one    *)
(* Library at a time: it constructs the next one after the one it holds  *)
(* has left scope.                                                        *)

\* the platform's table after Drop for Library: dlclose on a handle unloads
\* the library, and what is loaded next time may answer differently
dlclose(handle) ==
  IF is_null(handle) THEN symtab
  ELSE [k \in {j \in DOMAIN symtab : j[1] # handle} |-> symtab[k]]

InClosure == call.fn = "open" /\ call.ret = "pending"

\* call after an operation other than Library::new and Library::open: the
\* record of a call that has returned is dropped
CallKept == IF InClosure THEN call ELSE NoCall

\* unsafe Library::new(name_c, flags), called directly
New ==
  \E name_c \in CStrings, f \in OpenFlags :
    \E handle \in dlopen(name_c, RtldValue_to_libc(f)) :
      LET r == Library_new(name_c, f, handle, "new") IN
        /\ ~lib.live
        /\ lib' = IF r.ret = "Some" THEN r.lib ELSE lib
        /\ call' = [fn |-> "new", name |-> name_c, dlopened |-> TRUE,
                    handle |-> handle, ret |-> r.ret,
                    built |-> r.ret = "Some", closures |-> 0]
        /\ lastSym' = NoSym
        /\ lastName' = NoName
        /\ UNCHANGED <<flagVars, racers, symtab, boxes, freed>>

\* Library::open on a name CString::new rejects, as it would be with
\* `return true` in the place of `return false`
OpenInvalid_true ==
  \E name \in Strings, f \in OpenFlags :
    /\ ~lib.live
    /\ ~CStringNew(name).ok
    /\ call' = [fn |-> "open", name |-> name, dlopened |-> FALSE,
                handle |-> NULL, ret |-> "true", built |-> FALSE,
                closures |-> 0]
    /\ lastSym' = NoSym
    /\ lastName' = NoName
    /\ UNCHANGED <<flagVars, racers, lib, symtab, boxes, freed>>

\* Library::open(name, flags, closure) on a name CString::new rejects
OpenInvalid ==
  \E name \in Strings, f \in OpenFlags :
    /\ ~lib.live
    /\ ~CStringNew(name).ok
    /\ call' = [fn |-> "open", name |-> name, dlopened |-> FALSE,
                handle |-> NULL, ret |-> "false", built |-> FALSE,
                closures |-> 0]
    /\ lastSym' = NoSym
    /\ lastName' = NoName
    /\ UNCHANGED <<flagVars, racers, lib, symtab, boxes, freed>>

\* Library::open(name, flags, closure) on a name CString::new accepts, up
\* to the return of false or the call of the closure
OpenNew ==
  \E name \in Strings, f \in OpenFlags :
    LET cstr == CStringNew(name) IN
    \E handle \in dlopen(cstr.bytes, RtldValue_to_libc(f)) :
      LET r == Library_new(cstr.bytes, f, handle, "open") IN
        /\ ~lib.live
        /\ cstr.ok
        /\ lib' = IF r.ret = "Some" THEN r.lib ELSE lib
        /\ call' = [fn |-> "open", name |-> name, dlopened |-> TRUE,
                    handle |-> handle,
                    ret |-> CASE r.ret = "Some" -> "pending"
                              [] r.ret = "None" -> "false"
                              [] r.ret = "panic" -> "panic",
                    built |-> r.ret = "Some",
                    closures |-> IF r.ret = "Some" THEN 1 ELSE 0]
        /\ lastSym' = NoSym
        /\ lastName' = NoName
        /\ UNCHANGED <<flagVars, racers, symtab, boxes, freed>>

\* the closure returns: its Library argument leaves scope and
\* Library::open returns true
ClosureReturn ==
  /\ InClosure
  /\ lib' = Library_drop(lib)
  /\ symtab' = dlclose(lib.handle)
  /\ call' = [call EXCEPT !.ret = "true"]
  /\ lastSym' = NoSym
  /\ lastName' = NoName
  /\ UNCHANGED <<flagVars, racers, boxes, freed>>

\* a Library with a null handle built from its fields inside the crate
RawConstruct ==
  \E name \in Strings, table \in RawTables :
    /\ ~lib.live
    /\ lib' = MkLibrary(NULL, name, table, "raw", name)
    /\ call' = NoCall
    /\ lastSym' = NoSym
    /\ lastName' = NoName
    /\ UNCHANGED <<flagVars, racers, symtab, boxes, freed>>

\* Library::sym as it would be if it could be called on a Library that has
\* left scope
Sym_after_drop ==
  \E name \in Strings, ub \in UbOutcomes :
    LET key == <<lib.handle, dlsym_arg(name, CStringNew(name).bytes)>> IN
    \E sym_c \in IF key \in DOMAIN symtab THEN {symtab[key]}
                 ELSE dlsym_answers :
      LET r == Library_sym(lib, name, sym_c, ub) IN
        /\ lib.via # "none"
        /\ r.called => Cnt(lib.dlsyms, name) < MaxDlsym
        /\ (r.ret = "Some" /\ r.addr # NULL) => boxes[r.addr] < MaxBoxes
        /\ lib' = r.self
        /\ symtab' = IF r.called THEN (key :> sym_c) @@ symtab ELSE symtab
        /\ boxes' = IF r.ret = "Some" /\ r.addr # NULL
                    THEN [boxes EXCEPT ![r.addr] = @ + 1]
                    ELSE boxes
        /\ lastSym' = [name |-> name, hit |-> r.hit, called |-> r.called,
                       addr |-> r.addr, ret |-> r.ret]
        /\ lastName' = NoName
        /\ call' = CallKept
        /\ UNCHANGED <<flagVars, racers, freed>>

\* Library::sym(name) on the Library in scope
Sym ==
  \E name \in Strings, ub \in UbOutcomes :
    LET key == <<lib.handle, dlsym_arg(name, CStringNew(name).bytes)>> IN
    \E sym_c \in IF key \in DOMAIN symtab THEN {symtab[key]}
                 ELSE dlsym_answers :
      LET r == Library_sym(lib, name, sym_c, ub) IN
        /\ lib.live
        /\ r.called => Cnt(lib.dlsyms, name) < MaxDlsym
        /\ (r.ret = "Some" /\ r.addr # NULL) => boxes[r.addr] < MaxBoxes
        /\ lib' = r.self
        /\ symtab' = IF r.called THEN (key :> sym_c) @@ symtab ELSE symtab
        /\ boxes' = IF r.ret = "Some" /\ r.addr # NULL
                    THEN [boxes EXCEPT ![r.addr] = @ + 1]
                    ELSE boxes
        /\ lastSym' = [name |-> name, hit |-> r.hit, called |-> r.called,
                       addr |-> r.addr, ret |-> r.ret]
        /\ lastName' = NoName
        /\ call' = CallKept
        /\ UNCHANGED <<flagVars, racers, freed>>

\* Library::name() on the Library in scope
Name ==
  /\ lib.live
  /\ lastName' = [called |-> TRUE, ret |-> Library_name(lib)]
  /\ lastSym' = NoSym
  /\ call' = CallKept
  /\ UNCHANGED <<flagVars, racers, lib, symtab, boxes, freed>>

\* the caller lets a Box returned by Library::sym leave scope: the Box
\* deallocates its address through the global allocator.  (An allocator
\* that kills the process instead ends the behaviour here.)
ReleaseBox ==
  \E a \in Addrs :
    /\ boxes[a] > 0
    /\ boxes' = [boxes EXCEPT ![a] = @ - 1]
    /\ freed' = freed \cup {a}
    /\ call' = CallKept
    /\ lastSym' = NoSym
    /\ lastName' = NoName
    /\ UNCHANGED <<flagVars, racers, lib, symtab>>

\* the Library the caller owns leaves scope
Drop ==
  /\ lib.live
  /\ lib.via # "open"
  /\ lib' = Library_drop(lib)
  /\ symtab' = dlclose(lib.handle)
  /\ call' = NoCall
  /\ lastSym' = NoSym
  /\ lastName' = NoName
  /\ UNCHANGED <<flagVars, racers, boxes, freed>>

Next ==
  \/ New
  \/ OpenInvalid
  \/ OpenNew
  \/ ClosureReturn
  \/ RawConstruct
  \/ Sym
  \/ Name
  \/ ReleaseBox
  \/ Drop

Spec == Init /\ [][Next]_vars

-----------------------------------------------------------------------------
(* Two threads call Library::sym on one Library.  sym takes &mut self and *)
(* Library is neither Send nor Sync, so the caller can do this through    *)
(* unsafe code only; the two calls then read and write self.table without *)
(* synchronisation.  A call is taken in the steps of the source: the      *)
(* lookup in the table with the tests that follow it, the call of dlsym,  *)
(* the insert with the return.                                            *)

InFlight(t) == racers[t].pc \notin {"idle", "done"}

OtherThread(t) == CHOOSE u \in Threads : u # t

\* whether the two calls ran at the same time
Overlap == \E t \in Threads : racers[t].overlap

\* what an insert into the HashMap leaves behind when it races with the
\* accesses of the other thread (a data race, undefined behaviour): the
\* entry in the table, or a table without the entry
RaceOutcomes == {"inserted", "lost"}

\* a thread calls lib.sym(name)
RaceCall ==
  \E t \in Threads, name \in Strings :
    /\ lib.live
    /\ racers[t].pc = "idle"
    /\ racers' = [racers EXCEPT ![t] =
                    [NoRacer EXCEPT !.pc = "check", !.name = name,
                                    !.overlap = InFlight(OtherThread(t))]]
    /\ call' = CallKept
    /\ lastSym' = NoSym
    /\ lastName' = NoName
    /\ UNCHANGED <<flagVars, lib, symtab, boxes, freed>>

\* the lookup as it would be if it never found the name
RaceCheck_miss ==
  \E t \in Threads :
    LET r == racers[t] IN
      /\ r.pc = "check"
      /\ racers' = [racers EXCEPT ![t] =
                      IF is_null(lib.handle) \/ ~CStringNew(r.name).ok
                      THEN [r EXCEPT !.pc = "done", !.ret = "None"]
                      ELSE [r EXCEPT !.pc = "dlsym"]]
      /\ UNCHANGED <<flagVars, lib, symtab, call, lastSym, lastName, boxes,
                     freed>>

\* the lookup in the table: the call returns the address found, or None
\* for a null handle or a name that cannot be encoded, or goes on to dlsym
RaceCheck ==
  \E t \in Threads, ub \in UbOutcomes :
    LET r == racers[t]
        found == r.name \in DOMAIN lib.table
        some == found /\ lib.table[r.name] # NULL
    IN
      /\ r.pc = "check"
      /\ some => boxes[lib.table[r.name]] < MaxBoxes
      /\ racers' = [racers EXCEPT ![t] =
                      IF found
                      THEN [r EXCEPT !.pc = "done", !.hit = TRUE,
                                     !.addr = lib.table[r.name],
                                     !.ret = SomeBoxFromRaw(lib.table[r.name], ub)]
                      ELSE IF is_null(lib.handle)
                      THEN [r EXCEPT !.pc = "done", !.ret = "None"]
                      ELSE IF ~CStringNew(r.name).ok
                      THEN [r EXCEPT !.pc = "done", !.ret = "None"]
                      ELSE [r EXCEPT !.pc = "dlsym"]]
      /\ boxes' = IF some
                  THEN [boxes EXCEPT ![lib.table[r.name]] = @ + 1]
                  ELSE boxes
      /\ UNCHANGED <<flagVars, lib, symtab, call, lastSym, lastName, freed>>

\* the call of dlsym
RaceDlsym ==
  \E t \in Threads :
    LET r == racers[t]
        key == <<lib.handle, dlsym_arg(r.name, CStringNew(r.name).bytes)>>
    IN
    \E sym_c \in IF key \in DOMAIN symtab THEN {symtab[key]}
                 ELSE dlsym_answers :
      /\ r.pc = "dlsym"
      /\ Cnt(lib.dlsyms, r.name) < MaxDlsym
      /\ symtab' = (key :> sym_c) @@ symtab
      /\ lib' = [lib EXCEPT
                   !.dlsyms = (r.name :> (Cnt(@, r.name) + 1)) @@ @]
      /\ racers' = [racers EXCEPT ![t] =
                      [r EXCEPT !.pc = "insert", !.called = TRUE,
                                !.addr = sym_c]]
      /\ UNCHANGED <<flagVars, call, lastSym, lastName, boxes, freed>>

\* the insert into the table and the return of Some(sym)
RaceInsert ==
  \E t \in Threads, ub \in UbOutcomes :
    \E out \in IF Overlap THEN RaceOutcomes ELSE {"inserted"} :
      LET r == racers[t] IN
        /\ r.pc = "insert"
        /\ r.addr # NULL => boxes[r.addr] < MaxBoxes
        /\ lib' = [lib EXCEPT
                     !.table = IF out = "inserted"
                               THEN (r.name :> r.addr) @@ @
                               ELSE @]
        /\ racers' = [racers EXCEPT ![t] =
                        [r EXCEPT !.pc = "done",
                                  !.ret = SomeBoxFromRaw(r.addr, ub)]]
        /\ boxes' = IF r.addr # NULL
                    THEN [boxes EXCEPT ![r.addr] = @ + 1]
                    ELSE boxes
        /\ UNCHANGED <<flagVars, symtab, call, lastSym, lastName, freed>>

NextRace ==
  \/ New
  \/ RaceCall
  \/ RaceCheck
  \/ RaceDlsym
  \/ RaceInsert

SpecRace == Init /\ [][NextRace]_vars

-----------------------------------------------------------------------------
(* Properties *)

HasNul(s) == \E i \in 1..Len(s) : s[i] = NUL

\* the positions of the bits set in a non-negative c_int
Bits(n) == {b \in 0..(IntBits - 2) : (n \div (2 ^ b)) % 2 = 1}

Opened == lib.via \in {"new", "open"}

\* C1: a Library with a non-null handle has had dlclose called on its
\* handle no time while it is in scope and exactly once after it has left
\* scope; for a Library with a null handle dlclose is never called.
C1_CloseExactlyOnce ==
  /\ lib.live => lib.closes = 0
  /\ (~lib.live /\ lib.via # "none") =>
       lib.closes = (IF lib.handle # NULL THEN 1 ELSE 0)

C1_Witness ==
  ~lib.live /\ lib.via = "open" /\ lib.handle # NULL /\ lib.closes = 1

\* C2: on an opened Library, dlsym is called for an encodable name at
\* most once, and exactly once as soon as sym has been called with it: a
\* call that finds the name in the table does not reach the platform.
C2_ResolveOnce ==
  (lib.live /\ Opened) =>
    /\ \A n \in Strings : CStringNew(n).ok => Cnt(lib.dlsyms, n) <= 1
    /\ (lastSym.ret # "none" /\ CStringNew(lastSym.name).ok) =>
         Cnt(lib.dlsyms, lastSym.name) = 1
    /\ lastSym.hit => ~lastSym.called

C2_Witness ==
  /\ lib.live /\ lib.via = "open"
  /\ lastSym.hit /\ lastSym.addr = NULL
  /\ Cnt(lib.dlsyms, lastSym.name) = 1

\* C3: sym returns None when the address the platform reported, on this
\* call or on the call that filled the table, is null, and returns Some
\* only for a non-null address.
C3_AbsentIsNone ==
  lastSym.ret # "none" =>
    /\ ((lastSym.called \/ lastSym.hit) /\ lastSym.addr = NULL) =>
         lastSym.ret = "None"
    /\ lastSym.ret = "Some" => lastSym.addr # NULL

\* C4: when dlopen returns null, Library::new returns None and
\* Library::open returns false, no Library is built, the closure is not
\* called and dlclose and dlsym are not called; a Library
\* built by Library::new or Library::open has a non-null handle.
C4_State ==
  /\ (call.dlopened /\ call.handle = NULL) =>
       /\ call.ret = (IF call.fn = "new" THEN "None" ELSE "false")
       /\ ~call.built
       /\ call.closures = 0
  /\ Opened => lib.handle # NULL

C4_Step ==
  (call' # call /\ call'.dlopened /\ call'.handle = NULL) =>
    UNCHANGED <<lib, symtab>>

C4_OpenFailedNoHandle == [](C4_State) /\ [][C4_Step]_vars

C4_Witness ==
  /\ call.fn = "open" /\ call.dlopened /\ call.handle = NULL
  /\ call.ret = "false" /\ call.closures = 0

\* C5: Library::open on a path with a NUL byte returns false without
\* calling dlopen, dlsym or dlclose and without calling the closure.
C5_State ==
  (call.fn = "open" /\ HasNul(call.name)) =>
    /\ call.ret = "false"
    /\ ~call.dlopened
    /\ ~call.built
    /\ call.closures = 0

C5_Step ==
  (call' # call /\ call'.fn = "open" /\ HasNul(call'.name)) =>
    UNCHANGED <<lib, symtab, boxes, freed>>

C5_InvalidPathNoPlatformCall == [](C5_State) /\ [][C5_Step]_vars

C5_Witness ==
  /\ call.fn = "open" /\ HasNul(call.name)
  /\ ~call.dlopened /\ call.ret = "false"

\* the cause of the failure of a call of Library::open that returned false
Cause(c) == IF c.dlopened THEN "OpenFailed" ELSE "InvalidPath"

\* C6 as stated: two calls of Library::open that fail for different
\* causes return different outcomes.
C6_DistinctOutcomes ==
  [][(/\ call.fn = "open" /\ call.ret = "false"
      /\ call'.fn = "open" /\ call'.ret = "false"
      /\ Cause(call) # Cause(call'))
     => call.ret # call'.ret]_vars

\* C6 as amended: Library::open returns false for both causes of failure,
\* the path that cannot be encoded and the null handle of dlopen, and
\* false for nothing else: the outcome tells failure from success only.
C6_FailureIsFalse ==
  (call.fn = "open" /\ call.ret \in {"true", "false"}) =>
    ((call.ret = "false") <=>
       (HasNul(call.name) \/ (call.dlopened /\ call.handle = NULL)))

C6_Witness ==
  /\ call.fn = "open" /\ call.ret = "false"
  /\ call.dlopened /\ call.name = <<97>>

\* C7: Library::open returns true exactly when the path has no NUL byte
\* and dlopen returned a non-null handle; then, and only then, the closure
\* has been called, once, with the Library built on that handle.
C7_OpenTrueIff ==
  call.fn = "open" =>
    /\ call.ret \in {"pending", "true", "false"}
    /\ call.ret = "pending" =>
         /\ call.closures = 1
         /\ lib.live /\ lib.via = "open"
         /\ lib.handle = call.handle /\ lib.name = call.name
    /\ call.ret \in {"true", "false"} =>
         /\ (call.ret = "true") <=>
              (~HasNul(call.name) /\ call.dlopened /\ call.handle # NULL)
         /\ call.closures = (IF call.ret = "true" THEN 1 ELSE 0)
         /\ call.ret = "true" =>
              (call.built /\ lib.via = "open" /\ lib.handle = call.handle)

C7_Witness ==
  call.fn = "open" /\ call.ret = "true" /\ call.closures = 1

\* C8: the bits of to_libc are the bits of the constant of the main value
\* and the bits of the constants of the modifiers, and no other; Now with
\* Global gives RTLD_NOW | RTLD_GLOBAL.
C8_MaskIsOrOfConstants ==
  mask # NoMask =>
    /\ Bits(mask.value) =
         Bits(RtldMain_to_libc(mask.of.main)) \cup
         UNION {Bits(RtldOr_to_libc(mask.of.ors[i])) : i \in DOMAIN mask.of.ors}
    /\ mask.value >= 0
    /\ (mask.of.main = "Now" /\ mask.of.ors = <<"Global">>) =>
         (mask.value = 258 /\ Bits(mask.value) = {1, 8})

C8_Witness ==
  /\ mask.of = [main |-> "Now", ors |-> <<"Global">>]
  /\ mask.value = 258

\* the bits of RTLD_LAZY and RTLD_NOW
PrimaryBits == Bits(RTLD_LAZY) \cup Bits(RTLD_NOW)

\* C9: the mask has exactly one of the bits of RTLD_LAZY and RTLD_NOW, the
\* one of the main value, and the mask of a value with one more modifier
\* has the bits of the mask without it and the bits of that modifier.
C9_OnePrimaryBitMonotoneOr ==
  mask # NoMask =>
    /\ Cardinality(Bits(mask.value) \cap PrimaryBits) = 1
    /\ Bits(mask.value) \cap PrimaryBits = Bits(RtldMain_to_libc(mask.of.main))
    /\ mask.of.ors # <<>> =>
         LET n == Len(mask.of.ors)
             before == [mask.of EXCEPT !.ors = SubSeq(@, 1, n - 1)]
         IN /\ RtldValue_with(before, mask.of.ors[n]) = mask.of
            /\ Bits(mask.value) =
                 Bits(RtldValue_to_libc(before)) \cup
                 Bits(RtldOr_to_libc(mask.of.ors[n]))

C9_Witness ==
  /\ mask.of = [main |-> "Lazy", ors |-> <<"NoDelete", "DeepBind">>]
  /\ mask.value = 4105

\* C10: no address is deallocated through a value sym returned, the
\* caller never holds two owners of one address, and the address a table
\* hit returns has not been deallocated.
C10_SymbolsNotOwned ==
  /\ freed = {}
  /\ \A a \in Addrs : boxes[a] <= 1
  /\ lastSym.hit => lastSym.addr \notin freed

\* a Library that has left scope, dlclose being called if its handle is
\* not null
Closed(l) == ~l.live /\ l.via # "none"

\* a Library as its construction leaves it: in scope, no dlclose and no
\* dlsym called through it
Fresh(l) == l.live /\ l.closes = 0 /\ l.dlsyms = <<>>

\* C11: a Library is built, in scope, then out of scope, in this order:
\* a step from a Library in scope leaves it in scope with its handle or
\* takes it out of scope; after a Library has left scope no step brings
\* it back into scope and no step calls dlsym through it: the platform's
\* table is as it was, and the Library stays as it is until the caller
\* builds the next one.
C11_Step ==
  /\ Closed(lib) =>
       /\ symtab' = symtab
       /\ lib' = lib \/ Fresh(lib')
  /\ (lib.live /\ lib' # lib) =>
       \/ /\ lib'.live /\ lib'.closes = 0
          /\ lib'.handle = lib.handle /\ lib'.via = lib.via
       \/ Closed(lib') /\ lib'.handle = lib.handle

C11_ClosedIsTerminal == [][C11_Step]_vars

C11_Witness ==
  /\ Closed(lib) /\ lib.via = "new" /\ lib.closes = 1
  /\ call.fn = "new" /\ call.ret = "None"

\* C12: Library::name on a Library built by Library::new or Library::open
\* returns the path the Library was opened with, whatever calls of sym
\* came before; a call of sym leaves the name and the handle of the
\* Library as they were.
C12_State ==
  (lib.live /\ Opened) =>
    /\ lib.name = lib.path
    /\ lastName.called => lastName.ret = lib.path

C12_Step ==
  lastSym'.ret # "none" =>
    /\ lib'.name = lib.name
    /\ lib'.handle = lib.handle
    /\ lib'.path = lib.path

C12_NameIsOpenedPath == [](C12_State) /\ [][C12_Step]_vars

C12_Witness ==
  /\ lib.live /\ lib.via = "new" /\ lib.path = <<>>
  /\ Cnt(lib.dlsyms, <<97>>) = 1
  /\ lastName.called /\ lastName.ret = <<>>

\* the key of the platform's table for the name sym(n) passes to dlsym
\* through the Library l
SymKey(l, n) == <<l.handle, dlsym_arg(n, CStringNew(n).bytes)>>

\* C13: on a Library built by Library::new or Library::open the keys of
\* the table are the names dlsym has been called for through it, each
\* with the address dlsym answered, null included: the table is empty as
\* long as dlsym has not been called, and a call of sym that called dlsym
\* has put the answer under the name before it returns.
C13_CacheKeysAreResolvedNames ==
  /\ (lib.live /\ Opened) =>
       /\ DOMAIN lib.table = {n \in Strings : Cnt(lib.dlsyms, n) >= 1}
       /\ lib.dlsyms = <<>> => lib.table = <<>>
       /\ \A n \in DOMAIN lib.table :
            /\ SymKey(lib, n) \in DOMAIN symtab
            /\ lib.table[n] = symtab[SymKey(lib, n)]
  /\ lastSym.called =>
       /\ lastSym.name \in DOMAIN lib.table
       /\ lib.table[lastSym.name] = lastSym.addr

C13_Witness ==
  /\ lib.live /\ Opened
  /\ lastSym.called /\ lastSym.addr = NULL
  /\ lastSym.name \in DOMAIN lib.table /\ lib.table[lastSym.name] = NULL
  /\ Cardinality(DOMAIN lib.table) = 2

\* C14: as long as a Library is in scope, a step keeps every key of its
\* table with the address it had: no name is removed and no address is
\* overwritten.
C14_CacheOnlyGrows ==
  [][(lib.live /\ lib'.live) =>
       \A n \in DOMAIN lib.table :
         n \in DOMAIN lib'.table /\ lib'.table[n] = lib.table[n]]_vars

C14_Witness ==
  /\ lib.live /\ lib.via = "open"
  /\ DOMAIN lib.table = {<<>>, <<97>>}
  /\ lib.table[<<>>] # lib.table[<<97>>]
  /\ lastSym.called

\* C15: sym on a name with a NUL byte that is not a key of the table
\* returns None without calling dlsym, and leaves the Library (table,
\* handle, name) and the platform's table as they were.
C15_State ==
  (lastSym.ret # "none" /\ HasNul(lastSym.name) /\ ~lastSym.hit) =>
    /\ lastSym.ret = "None"
    /\ ~lastSym.called

C15_Step ==
  (lastSym'.ret # "none" /\ HasNul(lastSym'.name) /\ ~lastSym'.hit) =>
    UNCHANGED <<lib, symtab>>

C15_UnencodableNameIsNone == [](C15_State) /\ [][C15_Step]_vars

C15_Witness ==
  /\ lib.live /\ Opened /\ lib.table # <<>>
  /\ HasNul(lastSym.name) /\ ~lastSym.hit /\ lastSym.ret = "None"

\* C16: sym on a Library with a null handle never calls dlsym and leaves
\* the Library and the platform's table as they were; it returns None for
\* a name that is not a key of the table, and for a name that is a key it
\* answers with the address of the table, Some for a non-null one.
C16_State ==
  (lastSym.ret # "none" /\ is_null(lib.handle)) =>
    /\ ~lastSym.called
    /\ lastSym.hit <=> lastSym.name \in DOMAIN lib.table
    /\ ~lastSym.hit => lastSym.ret = "None"
    /\ lastSym.hit =>
         /\ lastSym.addr = lib.table[lastSym.name]
         /\ lastSym.addr # NULL => lastSym.ret = "Some"

C16_Step ==
  (lastSym'.ret # "none" /\ is_null(lib.handle)) =>
    UNCHANGED <<lib, symtab>>

C16_NullHandleIsNone == [](C16_State) /\ [][C16_Step]_vars

C16_Witness ==
  /\ lib.live /\ is_null(lib.handle)
  /\ lastSym.hit /\ lastSym.addr # NULL /\ lastSym.ret = "Some"

\* C17: after dlopen has returned a non-null handle, Library::new and
\* Library::open do not fail: the call builds a Library, which owns the
\* handle, and does not panic.
C17_OpenedHandleIsOwned ==
  (call.dlopened /\ ~is_null(call.handle)) =>
    /\ call.ret # "panic"
    /\ call.built
    /\ lib.via = call.fn /\ lib.handle = call.handle

Range(s) == {s[i] : i \in DOMAIN s}

\* C18: the c_int of to_libc is the same for every RtldValue with the
\* main value and the set of modifiers of the value converted, in whatever
\* order and however often the modifiers were added; adding a modifier
\* once more that the value has leaves the c_int as it is.
C18_MaskDependsOnSet ==
  mask # NoMask =>
    /\ \A v \in RtldValues :
         (v.main = mask.of.main /\ Range(v.ors) = Range(mask.of.ors)) =>
           RtldValue_to_libc(v) = mask.value
    /\ \A i \in DOMAIN mask.of.ors :
         RtldValue_to_libc(RtldValue_with(mask.of, mask.of.ors[i])) =
           mask.value

C18_Witness ==
  /\ mask.of = [main |-> "Now", ors |-> <<"NoLoad", "Global">>]
  /\ mask.value = 262
  /\ RtldValue_to_libc([main |-> "Now", ors |-> <<"Global", "NoLoad">>]) = 262

\* both threads have called sym with the name n, which dlsym can be
\* called for, and both calls have returned
BothDone(n) ==
  /\ CStringNew(n).ok
  /\ \A t \in Threads : racers[t].pc = "done" /\ racers[t].name = n

\* what the two calls of sym(n) leave behind: at most calls dlsym calls,
\* the same address for both callers, and n in the table with the address
\* dlsym answered
SameAnswerCached(n, calls) ==
  /\ Cnt(lib.dlsyms, n) \in 1..calls
  /\ \A t, u \in Threads : racers[t].addr = racers[u].addr
  /\ n \in DOMAIN lib.table
  /\ lib.table[n] = symtab[SymKey(lib, n)]

=============================================================================
